---------------------------- MODULE Spec2Model ----------------------------
(***************************************************************************)
(* Model of the Logger facade of src/shared/Logging/Logger.h.              *)
(*                                                                         *)
(* A Logger is a handle bound to a category name (name_).  Every public    *)
(* method forwards to one of the primitives declared in logging.h:         *)
(* log_message_v, log_printf_v, log_write, log_dump, log_enabled.  The     *)
(* model records, for every call of a public method, the sequence of       *)
(* primitive calls the method body makes, with the arguments it passes.    *)
(*                                                                         *)
(* Two specifications:                                                     *)
(*   Spec      one caller, one action per public method (the whole body);  *)
(*   SpecConc  several threads running the method bodies statement by      *)
(*             statement, interleaved, on shared handles.                  *)
(***************************************************************************)
EXTENDS Integers, Sequences, FiniteSets

VARIABLES
    name_,      \* name_[h]: the category a handle is bound to (const member)
    ctorArg,    \* ctorArg[h]: the argument its constructor was called with
    minLevel,   \* the policy store behind log_enabled: category -> minimum level
    alive,      \* FALSE once a call has faulted (null dereference in strlen)
    last,       \* Spec: the call of a public method that has just completed
    pc,         \* SpecConc: pc[t], the statement thread t is at
    frame,      \* SpecConc: frame[t], the call thread t is running
    locals,     \* SpecConc: locals[s], the automatic variables in storage s
    out         \* SpecConc: out[t], primitive calls made so far by t's call

vars == <<name_, ctorArg, minLevel, alive, last, pc, frame, locals, out>>

----------------------------------------------------------------------------
(* Bounds of the model *)

\* longest byte buffer / string a caller passes
MaxLen == 2

----------------------------------------------------------------------------
(* LogLevel, logging.h.  The enumeration is ordered; only the order is used. *)

LOG_LEVEL_TRACE == 1
DEBUG_LEVEL == 2
LOG_LEVEL_INFO == 3
LOG_LEVEL_WARN == 4
LOG_LEVEL_ERROR == 5
LOG_LEVEL_NONE == 6

\* Logger::DEFAULT_LEVEL
DEFAULT_LEVEL == LOG_LEVEL_INFO

\* levels a caller passes to an explicit-level overload
CallLevels ==
    {LOG_LEVEL_TRACE, DEBUG_LEVEL, LOG_LEVEL_INFO, LOG_LEVEL_WARN, LOG_LEVEL_ERROR}

\* minimum levels the policy store may hold for a category
PolicyLevels == CallLevels \cup {LOG_LEVEL_NONE}

\* the level argument of a method that takes none
NoLevel == 0

\* LOG_MODULE_CATEGORY, the default argument of the constructor
LOG_MODULE_CATEGORY == "app"

Categories == {LOG_MODULE_CATEGORY, "net"}

\* the constructor called without an argument
NoArg == "<no argument>"

Handles == {1, 2}

\* sizeof(LogAttributes): the size tag the facade writes into attr.size
SizeofLogAttributes == 8

----------------------------------------------------------------------------
(* Pointers and buffers *)

ByteVals == {10, 255}

RECURSIVE SeqsUpTo(_, _)
SeqsUpTo(S, n) ==
    IF n = 0 THEN {<<>>}
    ELSE LET shorter == SeqsUpTo(S, n - 1)
         IN shorter \cup {Append(s, x) : s \in {q \in shorter : Len(q) = n - 1}, x \in S}

Buffers == SeqsUpTo(ByteVals, MaxLen)

\* nullptr
NULL == [null |-> TRUE, mem |-> <<>>]

\* a pointer to memory holding the bytes mem
Ptr(mem) == [null |-> FALSE, mem |-> mem]

\* a pointer to a NUL-terminated C string with the characters s
CStr(s) == Ptr(Append(s, 0))

\* strlen: the number of bytes before the first NUL
RECURSIVE strlenFrom(_, _)
strlenFrom(mem, i) ==
    IF i > Len(mem) \/ mem[i] = 0 THEN 0 ELSE 1 + strlenFrom(mem, i + 1)

strlen(p) == strlenFrom(p.mem, 1)

\* format strings and variable argument lists of the log and printf families
Fmts == {"x=%d", "up"}

ArgLists == {<<5>>, <<>>}

----------------------------------------------------------------------------
(* LogAttributes *)

\* a null attributes / reserved pointer
NoAttr == [present |-> FALSE, size |-> 0, flags |-> 0]

\* &attr, with the two fields the facade has set
Attr(size, flags) == [present |-> TRUE, size |-> size, flags |-> flags]

----------------------------------------------------------------------------
(* The primitives of logging.h.  A call of a primitive is an event: the    *)
(* primitive's name and the arguments it was called with.                  *)

HexDigits ==
    <<"0", "1", "2", "3", "4", "5", "6", "7", "8", "9", "A", "B", "C", "D", "E", "F">>

\* the text log_dump makes of a buffer: two uppercase hex digits per byte
RECURSIVE HexEncode(_)
HexEncode(bytes) ==
    IF bytes = <<>> THEN <<>>
    ELSE <<HexDigits[(Head(bytes) \div 16) + 1], HexDigits[(Head(bytes) % 16) + 1]>>
         \o HexEncode(Tail(bytes))

Event(fn, level, category, attr, fmt, args, data, size, flags, ret, text) ==
    [fn |-> fn, level |-> level, category |-> category, attr |-> attr,
     fmt |-> fmt, args |-> args, data |-> data, size |-> size, flags |-> flags,
     ret |-> ret, text |-> text]

\* bool log_enabled(level, category, reserved)
log_enabled(level, category) ==
    Event("log_enabled", level, category, NoAttr, "", <<>>, NULL, 0, 0,
          level >= minLevel[category], <<>>)

\* void log_message_v(level, category, attr, reserved, fmt, args)
log_message_v(level, category, attr, fmt, args) ==
    Event("log_message_v", level, category, attr, fmt, args, NULL, 0, 0, FALSE, <<>>)

\* void log_printf_v(level, category, reserved, fmt, args)
log_printf_v(level, category, reserved, fmt, args) ==
    Event("log_printf_v", level, category, reserved, fmt, args, NULL, 0, 0, FALSE, <<>>)

\* void log_write(level, category, data, size, reserved)
log_write(level, category, data, size, reserved) ==
    Event("log_write", level, category, reserved, "", <<>>, data, size, 0, FALSE, <<>>)

\* void log_dump(level, category, data, size, flags, reserved)
log_dump(level, category, data, size, flags, reserved) ==
    Event("log_dump", level, category, reserved, "", <<>>, data, size, flags, FALSE,
          HexEncode(SubSeq(data.mem, 1, size)))

EmitFns == {"log_message_v", "log_printf_v", "log_write", "log_dump"}

----------------------------------------------------------------------------
(* The facade: each method is the sequence of primitive calls its body     *)
(* makes.  this is the handle the method is called on.                     *)

\* Logger::Logger(const char *name = LOG_MODULE_CATEGORY) : name_(name)
Logger(arg) == IF arg = NoArg THEN LOG_MODULE_CATEGORY ELSE arg

\* log() made to test the level itself and to drop a disabled message
log_va_gated(this, level, fmt, args) ==
    IF level >= minLevel[name_[this]]
    THEN <<log_message_v(level, name_[this], Attr(SizeofLogAttributes, 0), fmt, args)>>
    ELSE <<>>

\* log() with the assignment attr.flags = 0 left out
log_va_noflags(this, level, fmt, args) ==
    <<log_message_v(level, name_[this], Attr(SizeofLogAttributes, -1), fmt, args)>>

\* private: void log(LogLevel level, const char *fmt, va_list args) const
log_va(this, level, fmt, args) ==
    <<log_message_v(level, name_[this], Attr(SizeofLogAttributes, 0), fmt, args)>>

trace(this, fmt, args) == log_va(this, LOG_LEVEL_TRACE, fmt, args)

debug(this, fmt, args) == log_va(this, DEBUG_LEVEL, fmt, args)

info(this, fmt, args) == log_va(this, LOG_LEVEL_INFO, fmt, args)

\* warn() forwarding with the level of info()
warn_as_info(this, fmt, args) == log_va(this, LOG_LEVEL_INFO, fmt, args)

warn(this, fmt, args) == log_va(this, LOG_LEVEL_WARN, fmt, args)

error(this, fmt, args) == log_va(this, LOG_LEVEL_ERROR, fmt, args)

\* void log(const char *fmt, ...)
log(this, fmt, args) == log_va(this, DEFAULT_LEVEL, fmt, args)

\* void log(LogLevel level, const char *fmt, ...)
logL(this, level, fmt, args) == log_va(this, level, fmt, args)

\* void operator()(const char *fmt, ...)
call(this, fmt, args) == log_va(this, DEFAULT_LEVEL, fmt, args)

\* void operator()(LogLevel level, const char *fmt, ...)
callL(this, level, fmt, args) == log_va(this, level, fmt, args)

\* void printf(const char *fmt, ...)
printf(this, fmt, args) == <<log_printf_v(DEFAULT_LEVEL, name_[this], NoAttr, fmt, args)>>

\* printf() forwarding to the structured primitive
printfL_as_message(this, level, fmt, args) ==
    <<log_message_v(level, name_[this], NoAttr, fmt, args)>>

\* void printf(LogLevel level, const char *fmt, ...)
printfL(this, level, fmt, args) == <<log_printf_v(level, name_[this], NoAttr, fmt, args)>>

\* write() without its null check
writeL_unguarded(this, level, data, size) ==
    <<log_write(level, name_[this], data, size, NoAttr)>>

\* void write(LogLevel level, const char *data, size_t size)
writeL(this, level, data, size) ==
    IF ~data.null THEN <<log_write(level, name_[this], data, size, NoAttr)>> ELSE <<>>

\* void write(const char *data, size_t size)
write(this, data, size) == writeL(this, DEFAULT_LEVEL, data, size)

\* what a build may do with strlen(nullptr), which is undefined:
\*   "fault"   the read of address 0 traps
\*   "skip"    strlen returns some n and write's null check is kept
\*   "elided"  strlen returns some n and the compiler, having seen str
\*             dereferenced, has removed write's null check
UBOutcomes == {"fault", "skip", "elided"}

NoUB == "none"

\* void print(LogLevel level, const char *str): write(level, str, strlen(str))
printL(this, level, str, ub, n) ==
    IF ~str.null THEN writeL(this, level, str, strlen(str))
    ELSE IF ub = "elided" THEN <<log_write(level, name_[this], str, n, NoAttr)>>
    ELSE <<>>

\* void print(const char *str)
print(this, str, ub, n) == printL(this, DEFAULT_LEVEL, str, ub, n)

\* dump() skipping an empty buffer as it skips a null one
dumpL_skip_empty(this, level, data, size) ==
    IF ~data.null /\ size > 0
    THEN <<log_dump(level, name_[this], data, size, 0, NoAttr)>>
    ELSE <<>>

\* dump() asking log_enabled before it calls log_dump
dumpL_gated(this, level, data, size) ==
    IF ~data.null
    THEN <<log_enabled(level, name_[this]),
           log_dump(level, name_[this], data, size, 0, NoAttr)>>
    ELSE <<>>

\* void dump(LogLevel level, const void *data, size_t size)
dumpL(this, level, data, size) ==
    IF ~data.null THEN <<log_dump(level, name_[this], data, size, 0, NoAttr)>> ELSE <<>>

\* void dump(const void *data, size_t size)
dump(this, data, size) == dumpL(this, DEFAULT_LEVEL, data, size)

\* bool isLevelEnabled(LogLevel level): the call it makes; it returns the call's result
isLevelEnabled(this, level) == <<log_enabled(level, name_[this])>>

isTraceEnabled(this) == isLevelEnabled(this, LOG_LEVEL_TRACE)

isInfoEnabled(this) == isLevelEnabled(this, LOG_LEVEL_INFO)

\* isWarnEnabled() asking for the level of isInfoEnabled()
isWarnEnabled_as_info(this) == isLevelEnabled(this, LOG_LEVEL_INFO)

isWarnEnabled(this) == isLevelEnabled(this, LOG_LEVEL_WARN)

isErrorEnabled(this) == isLevelEnabled(this, LOG_LEVEL_ERROR)

\* name() answering the module's category for every handle
name_module(this) == LOG_MODULE_CATEGORY

\* const char* name() const
name(this) == name_[this]

----------------------------------------------------------------------------
(* Calls of public methods *)

\* one call of a public method: the method, the handle and the arguments.
\* ub and n say what the build does where the call's behaviour is undefined
\* (print of a null string): the outcome, and the value strlen yields.
Call(method, h, level, fmt, args, data, size, ub, n) ==
    [method |-> method, h |-> h, level |-> level, fmt |-> fmt, args |-> args,
     data |-> data, size |-> size, ub |-> ub, n |-> n]

NoCall == Call("none", 1, NoLevel, "", <<>>, NULL, 0, NoUB, 0)

\* calls of a method taking a format string and arguments
FmtCalls(method, levels, fmts, arglists) ==
    {Call(method, h, l, f, a, NULL, 0, NoUB, 0) :
        h \in Handles, l \in levels, f \in fmts, a \in arglists}

\* calls of a method taking a buffer and a size: the buffer is null, or it
\* holds at least size bytes
BufCalls(method, levels, buffers, sizes) ==
    {Call(method, h, l, "", <<>>, Ptr(b), s, NoUB, 0) :
        h \in Handles, l \in levels, b \in buffers, s \in sizes}
    \cup {Call(method, h, l, "", <<>>, NULL, s, NoUB, 0) :
        h \in Handles, l \in levels, s \in sizes}

BufCallsInBounds(method, levels, buffers, sizes) ==
    {c \in BufCalls(method, levels, buffers, sizes) :
        c.data.null \/ c.size <= Len(c.data.mem)}

\* calls of a method taking a C string: null, or NUL-terminated
StrCalls(method, levels, strings, ns) ==
    {Call(method, h, l, "", <<>>, CStr(s), 0, NoUB, 0) :
        h \in Handles, l \in levels, s \in strings}
    \cup {Call(method, h, l, "", <<>>, NULL, 0, "fault", 0) : h \in Handles, l \in levels}
    \cup {Call(method, h, l, "", <<>>, NULL, 0, "skip", 0) : h \in Handles, l \in levels}
    \cup {Call(method, h, l, "", <<>>, NULL, 0, "elided", n) :
        h \in Handles, l \in levels, n \in ns}

\* calls of a method taking a level at most
PlainCalls(method, levels) ==
    {Call(method, h, l, "", <<>>, NULL, 0, NoUB, 0) : h \in Handles, l \in levels}

LogFamily == {"trace", "debug", "info", "warn", "error", "log", "logL", "call", "callL"}

PrintfFamily == {"printf", "printfL"}

WriteFamily == {"print", "printL", "write", "writeL"}

DumpFamily == {"dump", "dumpL"}

EmittingMethods == LogFamily \cup PrintfFamily \cup WriteFamily \cup DumpFamily

QueryMethods ==
    {"isTraceEnabled", "isInfoEnabled", "isWarnEnabled", "isErrorEnabled", "isLevelEnabled"}

\* the level the declaration of a method documents for it
LevelOf(c) ==
    CASE c.method \in {"trace", "isTraceEnabled"} -> LOG_LEVEL_TRACE
      [] c.method = "debug" -> DEBUG_LEVEL
      [] c.method \in {"info", "isInfoEnabled"} -> LOG_LEVEL_INFO
      [] c.method \in {"warn", "isWarnEnabled"} -> LOG_LEVEL_WARN
      [] c.method \in {"error", "isErrorEnabled"} -> LOG_LEVEL_ERROR
      [] c.method \in {"log", "call", "printf", "print", "write", "dump"} -> DEFAULT_LEVEL
      [] OTHER -> c.level

\* what the policy store answers for the call's level and its handle's category
EnabledFor(c) == LevelOf(c) >= minLevel[name_[c.h]]

\* the record kept of a completed call
Completed(c, events, ret, retName) ==
    [call |-> c, enabled |-> EnabledFor(c), events |-> events, ret |-> ret,
     retName |-> retName]

\* no call has completed since the caller last carried on
Ready == alive /\ last.call.method = "none"

\* a call of a void method returns having made the primitive calls events
Done(c, events) ==
    /\ last' = Completed(c, events, FALSE, "")
    /\ alive' = (c.ub # "fault")
    /\ UNCHANGED <<name_, ctorArg, minLevel, pc, frame, locals, out>>

\* a call of a predicate returns what its log_enabled call returned
DoneQuery(c, events) ==
    /\ last' = Completed(c, events, events[Len(events)].ret, "")
    /\ UNCHANGED <<name_, ctorArg, minLevel, alive, pc, frame, locals, out>>

----------------------------------------------------------------------------
(* Spec: one action per public method *)

A_trace ==
    /\ Ready
    /\ \E c \in FmtCalls("trace", {NoLevel}, Fmts, ArgLists) : Done(c, trace(c.h, c.fmt, c.args))

A_debug ==
    /\ Ready
    /\ \E c \in FmtCalls("debug", {NoLevel}, Fmts, ArgLists) : Done(c, debug(c.h, c.fmt, c.args))

A_info ==
    /\ Ready
    /\ \E c \in FmtCalls("info", {NoLevel}, Fmts, ArgLists) : Done(c, info(c.h, c.fmt, c.args))

A_warn ==
    /\ Ready
    /\ \E c \in FmtCalls("warn", {NoLevel}, Fmts, ArgLists) : Done(c, warn(c.h, c.fmt, c.args))

A_error ==
    /\ Ready
    /\ \E c \in FmtCalls("error", {NoLevel}, Fmts, ArgLists) : Done(c, error(c.h, c.fmt, c.args))

A_log ==
    /\ Ready
    /\ \E c \in FmtCalls("log", {NoLevel}, Fmts, ArgLists) : Done(c, log(c.h, c.fmt, c.args))

A_logL ==
    /\ Ready
    /\ \E c \in FmtCalls("logL", CallLevels, Fmts, ArgLists) :
        Done(c, logL(c.h, c.level, c.fmt, c.args))

A_call ==
    /\ Ready
    /\ \E c \in FmtCalls("call", {NoLevel}, Fmts, ArgLists) : Done(c, call(c.h, c.fmt, c.args))

A_callL ==
    /\ Ready
    /\ \E c \in FmtCalls("callL", CallLevels, Fmts, ArgLists) :
        Done(c, callL(c.h, c.level, c.fmt, c.args))

A_printf ==
    /\ Ready
    /\ \E c \in FmtCalls("printf", {NoLevel}, Fmts, ArgLists) :
        Done(c, printf(c.h, c.fmt, c.args))

A_printfL ==
    /\ Ready
    /\ \E c \in FmtCalls("printfL", CallLevels, Fmts, ArgLists) :
        Done(c, printfL(c.h, c.level, c.fmt, c.args))

A_print ==
    /\ Ready
    /\ \E c \in StrCalls("print", {NoLevel}, Buffers, 0..MaxLen) : Done(c, print(c.h, c.data, c.ub, c.n))

A_printL ==
    /\ Ready
    /\ \E c \in StrCalls("printL", CallLevels, Buffers, 0..MaxLen) :
        Done(c, printL(c.h, c.level, c.data, c.ub, c.n))

A_write ==
    /\ Ready
    /\ \E c \in BufCallsInBounds("write", {NoLevel}, Buffers, 0..MaxLen) : Done(c, write(c.h, c.data, c.size))

A_writeL ==
    /\ Ready
    /\ \E c \in BufCallsInBounds("writeL", CallLevels, Buffers, 0..MaxLen) :
        Done(c, writeL(c.h, c.level, c.data, c.size))

A_dump ==
    /\ Ready
    /\ \E c \in BufCallsInBounds("dump", {NoLevel}, Buffers, 0..MaxLen) : Done(c, dump(c.h, c.data, c.size))

A_dumpL ==
    /\ Ready
    /\ \E c \in BufCallsInBounds("dumpL", CallLevels, Buffers, 0..MaxLen) :
        Done(c, dumpL(c.h, c.level, c.data, c.size))

A_isTraceEnabled ==
    /\ Ready
    /\ \E c \in PlainCalls("isTraceEnabled", {NoLevel}) : DoneQuery(c, isTraceEnabled(c.h))

A_isInfoEnabled ==
    /\ Ready
    /\ \E c \in PlainCalls("isInfoEnabled", {NoLevel}) : DoneQuery(c, isInfoEnabled(c.h))

A_isWarnEnabled ==
    /\ Ready
    /\ \E c \in PlainCalls("isWarnEnabled", {NoLevel}) : DoneQuery(c, isWarnEnabled(c.h))

A_isErrorEnabled ==
    /\ Ready
    /\ \E c \in PlainCalls("isErrorEnabled", {NoLevel}) : DoneQuery(c, isErrorEnabled(c.h))

A_isLevelEnabled ==
    /\ Ready
    /\ \E c \in PlainCalls("isLevelEnabled", CallLevels) :
        DoneQuery(c, isLevelEnabled(c.h, c.level))

A_name ==
    /\ Ready
    /\ \E c \in PlainCalls("name", {NoLevel}) :
        /\ last' = Completed(c, <<>>, FALSE, name(c.h))
        /\ UNCHANGED <<name_, ctorArg, minLevel, alive, pc, frame, locals, out>>

\* the environment reconfigures the policy store
SetMinLevel(levels) ==
    \E cat \in Categories, l \in levels :
        /\ minLevel[cat] # l
        /\ minLevel' = [minLevel EXCEPT ![cat] = l]
        /\ UNCHANGED <<name_, ctorArg, alive, last, pc, frame, locals, out>>

A_SetMinLevel == Ready /\ SetMinLevel(PolicyLevels)

\* the caller carries on after a completed call
A_Resume ==
    /\ alive
    /\ last.call.method # "none"
    /\ last' = [call |-> NoCall, enabled |-> FALSE, events |-> <<>>, ret |-> FALSE,
                retName |-> ""]
    /\ UNCHANGED <<name_, ctorArg, minLevel, alive, pc, frame, locals, out>>

Threads == {1, 2}

\* the storage the automatic variables of thread t's call live in: t's stack
Frame_static(t) == 1

Frame(t) == t

\* the automatic variables of a method body before any is assigned
Indeterminate == Attr(-1, -1)

NoLocals ==
    [this |-> 1, level |-> NoLevel, fmt |-> "", args |-> <<>>, data |-> NULL, size |-> 0,
     attr |-> Indeterminate]

Init ==
    /\ ctorArg = [h \in Handles |-> IF h = 1 THEN NoArg ELSE "net"]
    /\ name_ = [h \in Handles |-> Logger(ctorArg[h])]
    /\ minLevel = [cat \in Categories |-> LOG_LEVEL_INFO]
    /\ alive = TRUE
    /\ last = [call |-> NoCall, enabled |-> FALSE, events |-> <<>>, ret |-> FALSE,
               retName |-> ""]
    /\ pc = [t \in Threads |-> "idle"]
    /\ frame = [t \in Threads |-> NoCall]
    /\ locals = [t \in Threads |-> NoLocals]
    /\ out = [t \in Threads |-> <<>>]

Next ==
    \/ A_trace \/ A_debug \/ A_info \/ A_warn \/ A_error
    \/ A_log \/ A_logL \/ A_call \/ A_callL
    \/ A_printf \/ A_printfL
    \/ A_print \/ A_printL
    \/ A_write \/ A_writeL
    \/ A_dump \/ A_dumpL
    \/ A_isTraceEnabled \/ A_isInfoEnabled \/ A_isWarnEnabled \/ A_isErrorEnabled
    \/ A_isLevelEnabled
    \/ A_name
    \/ A_SetMinLevel
    \/ A_Resume

Spec == Init /\ [][Next]_vars

----------------------------------------------------------------------------
(* SpecConc: threads run the method bodies statement by statement *)

ConcLevels == {LOG_LEVEL_ERROR}

ConcFmts == {"x=%d"}

ConcArgLists == {<<5>>}

ConcBuffers == {<<10, 255>>}

\* the calls a thread makes
ConcCalls ==
    UNION {FmtCalls(m, {NoLevel}, ConcFmts, ConcArgLists) :
            m \in {"trace", "debug", "info", "warn", "error", "log", "call", "printf"}}
    \cup UNION {FmtCalls(m, ConcLevels, ConcFmts, ConcArgLists) :
            m \in {"logL", "callL", "printfL"}}
    \cup StrCalls("print", {NoLevel}, ConcBuffers, {1})
    \cup StrCalls("printL", ConcLevels, ConcBuffers, {1})
    \cup BufCallsInBounds("write", {NoLevel}, ConcBuffers, {2})
    \cup BufCallsInBounds("writeL", ConcLevels, ConcBuffers, {2})
    \cup BufCallsInBounds("dump", {NoLevel}, ConcBuffers, {2})
    \cup BufCallsInBounds("dumpL", ConcLevels, ConcBuffers, {2})
    \cup UNION {PlainCalls(m, {NoLevel}) :
            m \in {"isTraceEnabled", "isInfoEnabled", "isWarnEnabled", "isErrorEnabled",
                   "name"}}
    \cup PlainCalls("isLevelEnabled", ConcLevels)

\* the methods whose body is a call of another method of the class
Forwarders ==
    {"trace", "debug", "info", "warn", "error", "log", "logL", "call", "callL",
     "print", "write", "dump",
     "isTraceEnabled", "isInfoEnabled", "isWarnEnabled", "isErrorEnabled"}

\* the method a forwarder calls
ForwardTarget(m) ==
    CASE m \in {"trace", "debug", "info", "warn", "error", "log", "logL", "call", "callL"}
            -> "log_va"
      [] m = "print" -> "printL"
      [] m = "write" -> "writeL"
      [] m = "dump" -> "dumpL"
      [] OTHER -> "isLevelEnabled"

\* the level a forwarder passes on: a constant, or its own level argument
ForwardLevel(m, level) ==
    CASE m \in {"trace", "isTraceEnabled"} -> LOG_LEVEL_TRACE
      [] m = "debug" -> DEBUG_LEVEL
      [] m \in {"info", "isInfoEnabled"} -> LOG_LEVEL_INFO
      [] m \in {"warn", "isWarnEnabled"} -> LOG_LEVEL_WARN
      [] m \in {"error", "isErrorEnabled"} -> LOG_LEVEL_ERROR
      [] m \in {"log", "call", "print", "write", "dump"} -> DEFAULT_LEVEL
      [] OTHER -> level

\* thread t's automatic variables
Locals(t) == locals[Frame(t)]

\* thread t's call appends a primitive call and goes on at label next
Emit(t, e, next) ==
    /\ out' = [out EXCEPT ![t] = Append(@, e)]
    /\ pc' = [pc EXCEPT ![t] = next]
    /\ UNCHANGED <<name_, ctorArg, minLevel, alive, last, frame, locals>>

\* thread t calls a public method: the arguments are put in its frame
T_call(t) ==
    /\ alive
    /\ pc[t] = "idle"
    /\ \E c \in ConcCalls :
        /\ frame' = [frame EXCEPT ![t] = c]
        /\ locals' = [locals EXCEPT ![Frame(t)] =
                        [this |-> c.h, level |-> c.level, fmt |-> c.fmt, args |-> c.args,
                         data |-> c.data, size |-> c.size, attr |-> Indeterminate]]
        /\ pc' = [pc EXCEPT ![t] = c.method]
        /\ out' = [out EXCEPT ![t] = <<>>]
    /\ UNCHANGED <<name_, ctorArg, minLevel, alive, last>>

\* a forwarder calls its target with the level it fixes
T_forward(t) ==
    /\ alive
    /\ pc[t] \in Forwarders
    /\ locals' = [locals EXCEPT ![Frame(t)].level = ForwardLevel(pc[t], @)]
    /\ pc' = [pc EXCEPT ![t] = ForwardTarget(pc[t])]
    /\ UNCHANGED <<name_, ctorArg, minLevel, alive, last, frame, out>>

\* log(level, fmt, va_list): attr.size = sizeof(LogAttributes)
T_attr_size(t) ==
    /\ alive
    /\ pc[t] = "log_va"
    /\ locals' = [locals EXCEPT ![Frame(t)].attr.size = SizeofLogAttributes]
    /\ pc' = [pc EXCEPT ![t] = "log_va_flags"]
    /\ UNCHANGED <<name_, ctorArg, minLevel, alive, last, frame, out>>

\* log(level, fmt, va_list): attr.flags = 0
T_attr_flags(t) ==
    /\ alive
    /\ pc[t] = "log_va_flags"
    /\ locals' = [locals EXCEPT ![Frame(t)].attr.flags = 0]
    /\ pc' = [pc EXCEPT ![t] = "log_va_call"]
    /\ UNCHANGED <<name_, ctorArg, minLevel, alive, last, frame, out>>

\* log(level, fmt, va_list): log_message_v(level, name_, &attr, nullptr, fmt, args)
T_log_message_v(t) ==
    /\ alive
    /\ pc[t] = "log_va_call"
    /\ Emit(t, log_message_v(Locals(t).level, name_[Locals(t).this], Locals(t).attr,
                             Locals(t).fmt, Locals(t).args), "ret")

\* printf: log_printf_v(level, name_, nullptr, fmt, args)
T_log_printf_v(t) ==
    /\ alive
    /\ pc[t] \in {"printf", "printfL"}
    /\ Emit(t, log_printf_v(IF pc[t] = "printf" THEN DEFAULT_LEVEL ELSE Locals(t).level,
                            name_[Locals(t).this], NoAttr, Locals(t).fmt, Locals(t).args),
            "ret")

\* print(level, str): strlen(str), then the call of write
T_strlen(t) ==
    /\ alive
    /\ pc[t] = "printL"
    /\ IF ~Locals(t).data.null
       THEN /\ locals' = [locals EXCEPT ![Frame(t)].size = strlen(Locals(t).data)]
            /\ pc' = [pc EXCEPT ![t] = "writeL"]
            /\ alive' = alive
       ELSE IF frame[t].ub = "fault"
       THEN /\ alive' = FALSE
            /\ pc' = [pc EXCEPT ![t] = "fault"]
            /\ locals' = locals
       ELSE /\ locals' = [locals EXCEPT ![Frame(t)].size = frame[t].n]
            /\ pc' = [pc EXCEPT ![t] =
                        IF frame[t].ub = "elided" THEN "writeL_unchecked" ELSE "writeL"]
            /\ alive' = alive
    /\ UNCHANGED <<name_, ctorArg, minLevel, last, frame, out>>

\* write(level, data, size): if (data) log_write(level, name_, data, size, nullptr)
T_log_write(t) ==
    /\ alive
    /\ pc[t] \in {"writeL", "writeL_unchecked"}
    /\ IF pc[t] = "writeL_unchecked" \/ ~Locals(t).data.null
       THEN Emit(t, log_write(Locals(t).level, name_[Locals(t).this], Locals(t).data,
                              Locals(t).size, NoAttr), "ret")
       ELSE /\ pc' = [pc EXCEPT ![t] = "ret"]
            /\ UNCHANGED <<name_, ctorArg, minLevel, alive, last, frame, locals, out>>

\* dump(level, data, size): if (data) log_dump(level, name_, data, size, 0, nullptr)
T_log_dump(t) ==
    /\ alive
    /\ pc[t] = "dumpL"
    /\ IF ~Locals(t).data.null
       THEN Emit(t, log_dump(Locals(t).level, name_[Locals(t).this], Locals(t).data,
                             Locals(t).size, 0, NoAttr), "ret")
       ELSE /\ pc' = [pc EXCEPT ![t] = "ret"]
            /\ UNCHANGED <<name_, ctorArg, minLevel, alive, last, frame, locals, out>>

\* isLevelEnabled(level): return log_enabled(level, name_, nullptr)
T_log_enabled(t) ==
    /\ alive
    /\ pc[t] = "isLevelEnabled"
    /\ Emit(t, log_enabled(Locals(t).level, name_[Locals(t).this]), "ret")

\* name(): return name_
T_name(t) ==
    /\ alive
    /\ pc[t] = "name"
    /\ pc' = [pc EXCEPT ![t] = "ret"]
    /\ UNCHANGED <<name_, ctorArg, minLevel, alive, last, frame, locals, out>>

\* the method returns to its caller and its frame is popped
T_return(t) ==
    /\ alive
    /\ pc[t] = "ret"
    /\ pc' = [pc EXCEPT ![t] = "idle"]
    /\ frame' = [frame EXCEPT ![t] = NoCall]
    /\ locals' = [locals EXCEPT ![Frame(t)] = NoLocals]
    /\ out' = [out EXCEPT ![t] = <<>>]
    /\ UNCHANGED <<name_, ctorArg, minLevel, alive, last>>

\* the policy store is reconfigured while calls are running
T_SetMinLevel == alive /\ SetMinLevel({LOG_LEVEL_INFO, LOG_LEVEL_NONE})

NextConc ==
    \/ \E t \in Threads :
        \/ T_call(t)
        \/ T_forward(t)
        \/ T_attr_size(t)
        \/ T_attr_flags(t)
        \/ T_log_message_v(t)
        \/ T_log_printf_v(t)
        \/ T_strlen(t)
        \/ T_log_write(t)
        \/ T_log_dump(t)
        \/ T_log_enabled(t)
        \/ T_name(t)
        \/ T_return(t)
    \/ T_SetMinLevel

SpecConc == Init /\ [][NextConc]_vars

\* the primitive calls the call c makes when it runs alone
Alone(c) ==
    CASE c.method = "trace" -> trace(c.h, c.fmt, c.args)
      [] c.method = "debug" -> debug(c.h, c.fmt, c.args)
      [] c.method = "info" -> info(c.h, c.fmt, c.args)
      [] c.method = "warn" -> warn(c.h, c.fmt, c.args)
      [] c.method = "error" -> error(c.h, c.fmt, c.args)
      [] c.method = "log" -> log(c.h, c.fmt, c.args)
      [] c.method = "logL" -> logL(c.h, c.level, c.fmt, c.args)
      [] c.method = "call" -> call(c.h, c.fmt, c.args)
      [] c.method = "callL" -> callL(c.h, c.level, c.fmt, c.args)
      [] c.method = "printf" -> printf(c.h, c.fmt, c.args)
      [] c.method = "printfL" -> printfL(c.h, c.level, c.fmt, c.args)
      [] c.method = "print" -> print(c.h, c.data, c.ub, c.n)
      [] c.method = "printL" -> printL(c.h, c.level, c.data, c.ub, c.n)
      [] c.method = "write" -> write(c.h, c.data, c.size)
      [] c.method = "writeL" -> writeL(c.h, c.level, c.data, c.size)
      [] c.method = "dump" -> dump(c.h, c.data, c.size)
      [] c.method = "dumpL" -> dumpL(c.h, c.level, c.data, c.size)
      [] c.method = "isTraceEnabled" -> isTraceEnabled(c.h)
      [] c.method = "isInfoEnabled" -> isInfoEnabled(c.h)
      [] c.method = "isWarnEnabled" -> isWarnEnabled(c.h)
      [] c.method = "isErrorEnabled" -> isErrorEnabled(c.h)
      [] c.method = "isLevelEnabled" -> isLevelEnabled(c.h, c.level)
      [] OTHER -> <<>>

\* a primitive call without its result: primitive, level, category, payload
Signature(e) == [e EXCEPT !.ret = FALSE]

Signatures(events) == [i \in 1..Len(events) |-> Signature(events[i])]

----------------------------------------------------------------------------
(* Properties of Spec *)

EmitCount(events) == Cardinality({i \in 1..Len(events) : events[i].fn \in EmitFns})

QueryCount(events) == Cardinality({i \in 1..Len(events) : events[i].fn = "log_enabled"})

LastIsEmitting == last.call.method \in EmittingMethods

\* the method body reaches its primitive: always for the log and printf
\* families; for write and dump when the buffer is not null; for print when
\* the string is not null, or the build has elided write's null check
Reaches(c) ==
    \/ c.method \in LogFamily \cup PrintfFamily
    \/ ~c.data.null
    \/ c.method \in {"print", "printL"} /\ c.ub = "elided"

\* the primitive a method is documented to end in
PrimitiveOf(method) ==
    CASE method \in LogFamily -> "log_message_v"
      [] method \in PrintfFamily -> "log_printf_v"
      [] method \in WriteFamily -> "log_write"
      [] method \in DumpFamily -> "log_dump"
      [] OTHER -> "log_enabled"

\* C1 as stated: a call whose level is disabled for the handle's category at
\* the moment of the call makes no backend emit call.
C1_NoEmitWhenDisabled ==
    (LastIsEmitting /\ ~last.enabled) => EmitCount(last.events) = 0

\* C1 as amended: a call whose level is disabled at the moment of the call is
\* forwarded all the same. The method asks no enablement question, makes one
\* backend emit call when its body reaches the primitive (none only for a null
\* buffer), and hands over the format string, the arguments and the buffer as
\* it received them, unformatted and unencoded.
C1_ForwardedWhenDisabled ==
    (LastIsEmitting /\ ~last.enabled) =>
        /\ QueryCount(last.events) = 0
        /\ EmitCount(last.events) = IF Reaches(last.call) THEN 1 ELSE 0
        /\ \A i \in 1..Len(last.events) :
            /\ last.events[i].fmt = last.call.fmt
            /\ last.events[i].args = last.call.args
            /\ last.events[i].data = last.call.data

\* a disabled dump of a two-byte buffer has made its log_dump call
C1_Witness ==
    /\ last.call.method = "dumpL"
    /\ ~last.enabled
    /\ last.call.data = Ptr(<<10, 255>>)
    /\ EmitCount(last.events) = 1

UpperHex == {"0", "1", "2", "3", "4", "5", "6", "7", "8", "9", "A", "B", "C", "D", "E", "F"}

C3_NullBufferNoCall ==
    (last.call.method \in {"write", "writeL", "dump", "dumpL"} /\ last.call.data.null) =>
        /\ last.events = <<>>
        /\ alive

\* write of a null buffer with a non-zero size at an enabled level has returned
C3_Witness ==
    /\ last.call.method = "writeL"
    /\ last.call.data.null
    /\ last.call.size > 0
    /\ last.enabled
    /\ last.events = <<>>

\* C4 as stated: every backend emit call carries a present attributes record
\* with its size tag and its flag bitset set.
C4_AttrAlwaysPresent ==
    \A i \in 1..Len(last.events) :
        last.events[i].fn \in EmitFns =>
            /\ last.events[i].attr.present
            /\ last.events[i].attr.size = SizeofLogAttributes
            /\ last.events[i].attr.flags >= 0

\* C4 as amended: only the structured path carries an attributes record:
\* every log_message_v call has a present record with size =
\* sizeof(LogAttributes) and flags = 0, and every log_printf_v, log_write and
\* log_dump call is handed a null pointer in that place.
C4_AttrOnStructuredPathOnly ==
    \A i \in 1..Len(last.events) :
        /\ last.events[i].fn = "log_message_v" =>
            last.events[i].attr = Attr(SizeofLogAttributes, 0)
        /\ last.events[i].fn \in EmitFns \ {"log_message_v"} =>
            ~last.events[i].attr.present

\* error() has handed log_message_v a record with both fields set
C4_Witness ==
    /\ last.call.method = "error"
    /\ Len(last.events) = 1
    /\ last.events[1].attr.present
    /\ last.events[1].attr.size = SizeofLogAttributes
    /\ last.events[1].attr.flags = 0

\* C5: a method without a level argument makes the backend calls of its
\* explicit-level overload called with the documented level: Trace, Info,
\* Warn, Error for trace, info, warn, error, and Info (DEFAULT_LEVEL) for
\* log, operator(), printf, print, write and dump.
C5_DefaultLevelEquivalence ==
    LET c == last.call
        m == last.call.method
    IN /\ DEFAULT_LEVEL = LOG_LEVEL_INFO
       /\ m = "trace" => last.events = logL(c.h, LOG_LEVEL_TRACE, c.fmt, c.args)
       /\ m = "info" => last.events = logL(c.h, LOG_LEVEL_INFO, c.fmt, c.args)
       /\ m = "warn" => last.events = logL(c.h, LOG_LEVEL_WARN, c.fmt, c.args)
       /\ m = "error" => last.events = logL(c.h, LOG_LEVEL_ERROR, c.fmt, c.args)
       /\ m = "log" => last.events = logL(c.h, LOG_LEVEL_INFO, c.fmt, c.args)
       /\ m = "call" => last.events = callL(c.h, LOG_LEVEL_INFO, c.fmt, c.args)
       /\ m = "printf" => last.events = printfL(c.h, LOG_LEVEL_INFO, c.fmt, c.args)
       /\ m = "print" => last.events = printL(c.h, LOG_LEVEL_INFO, c.data, c.ub, c.n)
       /\ m = "write" => last.events = writeL(c.h, LOG_LEVEL_INFO, c.data, c.size)
       /\ m = "dump" => last.events = dumpL(c.h, LOG_LEVEL_INFO, c.data, c.size)
       /\ (m \in {"trace", "info", "warn", "error", "log", "call", "printf", "print",
                  "write", "dump"}) =>
              \A i \in 1..Len(last.events) : last.events[i].level = LevelOf(c)

\* warn() has made one call, with level Warn
C5_Witness ==
    /\ last.call.method = "warn"
    /\ Len(last.events) = 1
    /\ last.events[1].level = LOG_LEVEL_WARN

\* C6: a call at an enabled level with a present payload makes exactly one
\* backend call, of the primitive matching the method, with the call's level
\* and the handle's own category.
C6_OneCallOfOneShape ==
    (LastIsEmitting /\ last.enabled /\ ~(last.call.method \in WriteFamily \cup DumpFamily
                                        /\ last.call.data.null)) =>
        /\ Len(last.events) = 1
        /\ last.events[1].fn = PrimitiveOf(last.call.method)
        /\ last.events[1].level = LevelOf(last.call)
        /\ last.events[1].category = Logger(ctorArg[last.call.h])

\* category "net" has minimum Warn; warn("x=%d", 5) has made one
\* log_message_v call with level Warn
C6_Witness ==
    /\ minLevel["net"] = LOG_LEVEL_WARN
    /\ last.call.method = "warn"
    /\ last.call.h = 2
    /\ last.call.fmt = "x=%d"
    /\ last.call.args = <<5>>
    /\ last.enabled
    /\ Len(last.events) = 1
    /\ last.events[1].fn = "log_message_v"
    /\ last.events[1].level = LOG_LEVEL_WARN
    /\ last.events[1].category = "net"

\* C7: in every state every handle is bound to the category its constructor
\* was given, or to the module's category when it was given none; name()
\* returns that category and makes no backend call.
C7_NameIsConstructionCategory ==
    /\ \A h \in Handles :
        name_[h] = IF ctorArg[h] = NoArg THEN LOG_MODULE_CATEGORY ELSE ctorArg[h]
    /\ last.call.method = "name" =>
        /\ last.retName =
            IF ctorArg[last.call.h] = NoArg THEN LOG_MODULE_CATEGORY
            ELSE ctorArg[last.call.h]
        /\ last.events = <<>>

\* name() on the handle constructed with "net" has returned "net"
C7_Witness ==
    /\ last.call.method = "name"
    /\ ctorArg[last.call.h] = "net"
    /\ last.retName = "net"

\* C8: a predicate returns the policy store's answer for its level and the
\* handle's category (true iff the level is at or above the category's
\* minimum), the fixed-level predicates ask for Trace, Info, Warn and Error,
\* and the only backend call a predicate makes is that log_enabled call.
C8_PredicatesAnswerPolicy ==
    last.call.method \in QueryMethods =>
        /\ last.ret = (LevelOf(last.call) >= minLevel[name_[last.call.h]])
        /\ Len(last.events) = 1
        /\ last.events[1].fn = "log_enabled"
        /\ last.events[1].level = LevelOf(last.call)
        /\ last.events[1].category = name_[last.call.h]
        /\ EmitCount(last.events) = 0

\* with "net" at minimum Error, isWarnEnabled() on the "net" handle is false
C8_Witness ==
    /\ last.call.method = "isWarnEnabled"
    /\ name_[last.call.h] = "net"
    /\ minLevel["net"] = LOG_LEVEL_ERROR
    /\ last.ret = FALSE
    /\ Len(last.events) = 1

\* C10 as stated: every backend emit call of a public emitting method is
\* preceded, within the call, by an enablement query for the same level and
\* category that returned true.
C10_GateBeforeDispatch ==
    LastIsEmitting =>
        \A i \in 1..Len(last.events) :
            last.events[i].fn \in EmitFns =>
                \E j \in 1..(i - 1) :
                    /\ last.events[j].fn = "log_enabled"
                    /\ last.events[j].level = last.events[i].level
                    /\ last.events[j].category = last.events[i].category
                    /\ last.events[j].ret

\* C10 as amended: the per-call sequence of a public emitting method is
\* passthrough -> dispatch with no gate: the method asks no enablement
\* question, and its whole interaction with the backend is at most one call,
\* of the emit primitive of its family, made with the call's level and the
\* handle's category.
C10_DispatchWithoutGate ==
    LastIsEmitting =>
        /\ Len(last.events) <= 1
        /\ \A i \in 1..Len(last.events) :
            /\ last.events[i].fn # "log_enabled"
            /\ last.events[i].fn = PrimitiveOf(last.call.method)
            /\ last.events[i].level = LevelOf(last.call)
            /\ last.events[i].category = name_[last.call.h]

\* an enabled dump has made its log_dump call and nothing before it
C10_Witness ==
    /\ last.call.method = "dumpL"
    /\ last.enabled
    /\ Len(last.events) = 1
    /\ last.events[1].fn = "log_dump"

----------------------------------------------------------------------------
(* Properties of SpecConc *)

\* C9: whatever the interleaving, a call that has reached its return has made
\* exactly the backend calls (primitive, level, category, payload) it makes
\* when run alone, and every handle is still bound to its own category.
C9_Reentrant ==
    /\ \A t \in Threads :
        pc[t] = "ret" => Signatures(out[t]) = Signatures(Alone(frame[t]))
    /\ \A h \in Handles :
        name_[h] = IF ctorArg[h] = NoArg THEN LOG_MODULE_CATEGORY ELSE ctorArg[h]

\* thread 1 has completed trace() while thread 2 is inside dump() on the same
\* handle, between its entry and its log_dump call
C9_Witness ==
    /\ pc[1] = "ret"
    /\ frame[1].method = "trace"
    /\ Len(out[1]) = 1
    /\ pc[2] = "dumpL"
    /\ frame[2].method = "dump"
    /\ frame[2].h = frame[1].h

=============================================================================
